---- MODULE Spec2Model ----
(***************************************************************************)
(* Model of the petnetsim execution engine (class PetriNet): network       *)
(* construction, derivation of the conflict groups, step() and reset().    *)
(* The entity classes (Place, Arc, Inhibitor, Transition and variants) of  *)
(* petnetsim.elements are modelled from their description in the design    *)
(* document; everything else follows src/src/petnetsim/__init__.py.        *)
(***************************************************************************)
EXTENDS Integers, Sequences, FiniteSets, TLC

(***************************************************************************)
(* Bounds of the model.                                                    *)
(***************************************************************************)
\* step() calls explored after construction or reset()
MaxSteps == 4
\* the simulation clock is explored up to this value
MaxTime == 6
\* raw values 0 .. RandRange-1 a draw from the random generator can take
RandRange == 3
\* entries the fired_phase2 log is allowed to collect
MaxLog == 3
\* raw values a seeded generator is followed for
SeedLen == 4
\* calls of clone() on one network
MaxClones == 2

(***************************************************************************)
(* Generic helpers.                                                        *)
(***************************************************************************)
Range(f) == {f[i] : i \in DOMAIN f}

Max(S) == CHOOSE x \in S : \A y \in S : y <= x

Min(S) == CHOOSE x \in S : \A y \in S : x <= y

RECURSIVE SetToSeq(_)
\* the elements of a set of integers in ascending order
SetToSeq(S) ==
    IF S = {} THEN <<>>
    ELSE LET m == Min(S) IN <<m>> \o SetToSeq(S \ {m})

RECURSIVE SumOver(_, _)
\* sum of f[i] for the indices i of the sequence idxs
SumOver(f, idxs) ==
    IF idxs = <<>> THEN 0
    ELSE f[Head(idxs)] + SumOver(f, Tail(idxs))

(***************************************************************************)
(* Construction input: descriptors of places, transitions and arcs.        *)
(***************************************************************************)
\* capacity value of a place without an upper bound
Unbounded == -1

Pl(name, init_tokens, capacity) ==
    [name |-> name, init_tokens |-> init_tokens, capacity |-> capacity]

Tn(name) ==
    [name |-> name, class |-> "Transition", priority |-> 0,
     probability |-> 0, times |-> <<0>>]

Tp(name, priority) ==
    [name |-> name, class |-> "TransitionPriority", priority |-> priority,
     probability |-> 0, times |-> <<0>>]

Ts(name, probability) ==
    [name |-> name, class |-> "TransitionStochastic", priority |-> 0,
     probability |-> probability, times |-> <<0>>]

\* times: the delays the transition's time-sampling function can return
Tt(name, times) ==
    [name |-> name, class |-> "TransitionTimed", priority |-> 0,
     probability |-> 0, times |-> times]

Ar(name, source, target, n_tokens) ==
    [name |-> name, class |-> "Arc", source |-> source, target |-> target,
     n_tokens |-> n_tokens]

Inh(name, source, target, n_tokens) ==
    [name |-> name, class |-> "Inhibitor", source |-> source, target |-> target,
     n_tokens |-> n_tokens]

MkNet(places, transitions, arcs) ==
    [places |-> places, transitions |-> transitions, arcs |-> arcs]

NP(net) == Len(net.places)

NT(net) == Len(net.transitions)

NA(net) == Len(net.arcs)

PlaceNames(net) == {net.places[i].name : i \in 1..NP(net)}

TransitionNames(net) == {net.transitions[i].name : i \in 1..NT(net)}

\* index of the place called name
PlaceIndex(net, name) == CHOOSE i \in 1..NP(net) : net.places[i].name = name

\* t.inputs: the arcs and inhibitors that point at transition ti
inputs(net, ti) ==
    {a \in 1..NA(net) : net.arcs[a].target = net.transitions[ti].name}

\* t.outputs: the arcs that leave transition ti
outputs(net, ti) ==
    {a \in 1..NA(net) : net.arcs[a].source = net.transitions[ti].name}

\* the ordinary (non-inhibitor) input arcs of ti
arc_inputs(net, ti) == {a \in inputs(net, ti) : net.arcs[a].class = "Arc"}

inhibitors(net, ti) == {a \in inputs(net, ti) : net.arcs[a].class = "Inhibitor"}

source(net, a) == PlaceIndex(net, net.arcs[a].source)

target(net, a) == PlaceIndex(net, net.arcs[a].target)

RECURSIVE Weight(_, _)
\* total n_tokens of a set of arcs
Weight(net, arcs) ==
    IF arcs = {} THEN 0
    ELSE LET a == CHOOSE x \in arcs : TRUE
         IN net.arcs[a].n_tokens + Weight(net, arcs \ {a})

(***************************************************************************)
(* Entities (petnetsim.elements).  A network object is a record s; the     *)
(* entity operations read and update its fields tokens (per place),        *)
(* is_waiting (per transition) and raised (the exception that ended the    *)
(* running call, "" for none).                                             *)
(***************************************************************************)
\* Place.reset() for every place
Place_reset(net) == [p \in 1..NP(net) |-> net.places[p].init_tokens]

\* the place can receive n more tokens without breaching its capacity
Place_can_add(net, tokens, p, n) ==
    \/ net.places[p].capacity = Unbounded
    \/ tokens[p] + n <= net.places[p].capacity

\* an ordinary input arc is satisfiable
Arc_satisfiable(net, tokens, a) ==
    tokens[source(net, a)] >= net.arcs[a].n_tokens

\* an inhibitor arc disables its transition
Inhibitor_triggered(net, tokens, a) ==
    tokens[source(net, a)] >= net.arcs[a].n_tokens

\* Transition.enabled(), TransitionTimed.enabled()
Transition_enabled(net, s, ti) ==
    /\ \A a \in arc_inputs(net, ti) : Arc_satisfiable(net, s.tokens, a)
    /\ \A a \in inhibitors(net, ti) : ~Inhibitor_triggered(net, s.tokens, a)
    /\ net.transitions[ti].class = "TransitionTimed" => ~s.is_waiting[ti]

\* Transition.output_possible()
Transition_output_possible(net, s, ti) ==
    \A a \in outputs(net, ti) :
        Place_can_add(net, s.tokens, target(net, a), net.arcs[a].n_tokens)

\* the token movement of transition ti: every ordinary input source loses
\* its arc weight, every output target gains its arc weight
move_tokens(net, tokens, ti) ==
    [p \in 1..NP(net) |->
        tokens[p]
        - Weight(net, {a \in arc_inputs(net, ti) : source(net, a) = p})
        + Weight(net, {a \in outputs(net, ti) : target(net, a) = p})]

\* Transition.fire(); for a Timed transition this is phase 1: it commits the
\* transition (is_waiting) and moves no tokens.  Calling it on a transition
\* that is not enabled or whose output is not possible is a fatal error.
Transition_fire(net, s, ti) ==
    IF ~(Transition_enabled(net, s, ti) /\ Transition_output_possible(net, s, ti))
    THEN [s EXCEPT !.raised = "fire: transition not enabled"]
    ELSE IF net.transitions[ti].class = "TransitionTimed"
    THEN [s EXCEPT !.is_waiting[ti] = TRUE]
    ELSE [s EXCEPT !.tokens = move_tokens(net, s.tokens, ti)]

\* TransitionTimed.fire_phase2(): the token movement after the delay
fire_phase2(net, s, ti) ==
    [s EXCEPT !.tokens = move_tokens(net, s.tokens, ti),
              !.is_waiting[ti] = FALSE]

\* TransitionTimed.choose_time() with the raw random value r
choose_time(net, ti, r) ==
    LET times == net.transitions[ti].times
    IN times[(r % Len(times)) + 1]

\* Transition.reset() for every transition
Transition_reset(net) == [ti \in 1..NT(net) |-> FALSE]

(***************************************************************************)
(* PetriNet.__init__: the name table.                                      *)
(***************************************************************************)
\* the names registered before arc number i is processed
names_before_arc(net, i) ==
    PlaceNames(net) \cup TransitionNames(net)
        \cup {net.arcs[j].name : j \in 1..(i - 1)}

\* variant of node_name_reused: the names of the places are not checked
\* against each other
node_name_reused_places_unchecked(net) ==
    \/ \E i \in 1..NT(net) : net.transitions[i].name \in PlaceNames(net)
    \/ \E i, j \in 1..NT(net) :
          i < j /\ net.transitions[i].name = net.transitions[j].name

\* a place or transition name that is already in the name table
node_name_reused(net) ==
    \/ \E i, j \in 1..NP(net) : i < j /\ net.places[i].name = net.places[j].name
    \/ \E i \in 1..NT(net) : net.transitions[i].name \in PlaceNames(net)
    \/ \E i, j \in 1..NT(net) :
          i < j /\ net.transitions[i].name = net.transitions[j].name

RECURSIVE connect_arcs(_, _)
\* the loop over the arcs: register the name, then Arc.connect(lookup);
\* the result is the error raised, "" for none
connect_arcs(net, i) ==
    IF i > NA(net) THEN ""
    ELSE IF net.arcs[i].name \in names_before_arc(net, i)
    THEN "name reused"
    ELSE IF \/ net.arcs[i].source \notin names_before_arc(net, i + 1)
            \/ net.arcs[i].target \notin names_before_arc(net, i + 1)
    THEN "unresolved reference"
    ELSE connect_arcs(net, i + 1)

names_lookup_error(net) ==
    IF node_name_reused(net) THEN "name reused" ELSE connect_arcs(net, 1)

(***************************************************************************)
(* PetriNet._make_conflict_groups.                                         *)
(***************************************************************************)
\* set(arc.source for arc in t.inputs if isinstance(arc, Arc))
t_in(net, ti) == {source(net, a) : a \in arc_inputs(net, ti)}

\* set(i.source for i in t.inputs): inhibitors included
input_sources(net, ti) == {source(net, a) : a \in inputs(net, ti)}

RECURSIVE add_to_groups_every_hit(_, _, _)
\* variant of add_to_groups: transition ti joins every group that holds a
\* member sharing an ordinary input place
add_to_groups_every_hit(net, groups, ti) ==
    IF ti > NT(net) THEN groups
    ELSE LET hit == {g \in 1..Len(groups) :
                        \E cg_t \in groups[g] :
                            t_in(net, ti) \cap t_in(net, cg_t) # {}}
         IN IF hit = {}
            THEN add_to_groups_every_hit(net, Append(groups, {ti}), ti + 1)
            ELSE add_to_groups_every_hit(net,
                    [g \in 1..Len(groups) |->
                        IF g \in hit THEN groups[g] \cup {ti} ELSE groups[g]],
                    ti + 1)

RECURSIVE add_to_groups(_, _, _)
\* the loop over transitions[1:]: transition ti joins the first group that
\* holds a member sharing an ordinary input place, else starts a new group
add_to_groups(net, groups, ti) ==
    IF ti > NT(net) THEN groups
    ELSE LET hit == {g \in 1..Len(groups) :
                        \E cg_t \in groups[g] :
                            t_in(net, ti) \cap t_in(net, cg_t) # {}}
         IN IF hit = {}
            THEN add_to_groups(net, Append(groups, {ti}), ti + 1)
            ELSE add_to_groups(net,
                    [groups EXCEPT ![Min(hit)] = @ \cup {ti}], ti + 1)

\* the list of sets of transitions built first
group_sets(net) ==
    IF NT(net) = 0 THEN <<>> ELSE add_to_groups(net, <<{1}>>, 2)

t_cg_type(net, ti) ==
    CASE net.transitions[ti].class = "TransitionPriority" -> "Priority"
      [] net.transitions[ti].class = "TransitionStochastic" -> "Stochastic"
      [] net.transitions[ti].class = "TransitionTimed" -> "Timed"
      [] OTHER -> "Normal"

\* variant of cg_type: Normal members are accepted in a Stochastic group
cg_type_stochastic_mixed(net, cg) ==
    LET t_types == {t_cg_type(net, t) : t \in cg}
    IN IF t_types \subseteq {"Normal"} THEN "Normal"
       ELSE IF t_types \subseteq {"Normal", "Priority"} THEN "Priority"
       ELSE IF t_types \subseteq {"Normal", "Timed"} THEN "Timed"
       ELSE IF t_types \subseteq {"Normal", "Stochastic"}
       THEN IF \A t, u \in cg : input_sources(net, t) = input_sources(net, u)
            THEN "Stochastic"
            ELSE "error: stochastic group must share the same inputs"
       ELSE "error: unsupported combination of transitions"

\* the type of group cg, or the error its members raise
cg_type(net, cg) ==
    LET t_types == {t_cg_type(net, t) : t \in cg}
    IN IF t_types \subseteq {"Normal"} THEN "Normal"
       ELSE IF t_types \subseteq {"Normal", "Priority"} THEN "Priority"
       ELSE IF t_types \subseteq {"Normal", "Timed"} THEN "Timed"
       ELSE IF t_types \subseteq {"Stochastic"}
       THEN IF \A t, u \in cg : input_sources(net, t) = input_sources(net, u)
            THEN "Stochastic"
            ELSE "error: stochastic group must share the same inputs"
       ELSE "error: unsupported combination of transitions"

\* number of values of the unsigned type of the priority array; NumPy's uint
\* has 2^64, the model keeps the wrap-around at the width its integers hold
UintModulus == 1073741824

\* storing priority v into the np.uint array: NumPy releases differ on a
\* negative value, it either wraps around or raises OverflowError
store_uint(v, numpy) ==
    IF v >= 0 THEN v
    ELSE IF numpy = "wraps" THEN v + UintModulus
    ELSE -1

\* conflict_group_data[cgi] for a group of type cgt with members cg
group_data(net, cg, cgt, numpy) ==
    CASE cgt = "Priority" ->
            [ti \in 1..NT(net) |->
                IF ti \in cg /\ net.transitions[ti].class = "TransitionPriority"
                THEN store_uint(net.transitions[ti].priority, numpy)
                ELSE 0]
      [] cgt = "Timed" ->
            << [ti \in 1..NT(net) |->
                    ti \in cg /\ net.transitions[ti].class = "TransitionTimed"],
               [ti \in 1..NT(net) |->
                    ti \in cg /\ net.transitions[ti].class # "TransitionTimed"] >>
      [] cgt = "Stochastic" ->
            [ti \in 1..NT(net) |->
                IF ti \in cg THEN net.transitions[ti].probability ELSE 0]
      [] OTHER -> <<>>

\* conflict_groups_mask: one row of flags per group
make_mask(net, sets) ==
    [cgi \in 1..Len(sets) |-> [ti \in 1..NT(net) |-> ti \in sets[cgi]]]

\* the error _make_conflict_groups raises, "" for none
conflict_groups_error(net, numpy) ==
    LET sets == group_sets(net)
        bad == {g \in 1..Len(sets) :
                   \/ cg_type(net, sets[g]) \notin
                          {"Normal", "Priority", "Timed", "Stochastic"}}
        neg == \E g \in 1..Len(sets) :
                   /\ cg_type(net, sets[g]) = "Priority"
                   /\ \E ti \in sets[g] :
                          group_data(net, sets[g], "Priority", numpy)[ti] < 0
    IN IF bad # {} THEN cg_type(net, sets[Min(bad)])
       ELSE IF neg THEN "OverflowError"
       ELSE ""

\* tuple(cg): the members of a set in its iteration order
set_iter(cg, order) ==
    LET rank == [t \in cg |-> Cardinality({u \in cg : order[u] < order[t]}) + 1]
    IN [k \in 1..Cardinality(cg) |-> CHOOSE t \in cg : rank[t] = k]

(***************************************************************************)
(* PetriNet.__init__: the object after construction.  order is the         *)
(* iteration order the interpreter gives the sets of transitions, numpy    *)
(* the NumPy behaviour on a negative unsigned value.  call names the last   *)
(* call made on the object and trace lists the selections, firings and     *)
(* clock advances that call performed.                                     *)
(***************************************************************************)
PetriNet(net, order, numpy) ==
    LET e1 == names_lookup_error(net)
        err == IF e1 # "" THEN e1 ELSE conflict_groups_error(net, numpy)
        sets == IF err = "" THEN group_sets(net) ELSE <<>>
        types == [g \in 1..Len(sets) |-> cg_type(net, sets[g])]
    IN [constructed |-> err = "",
        raised |-> err,
        tokens |-> [p \in 1..NP(net) |-> net.places[p].init_tokens],
        is_waiting |-> [ti \in 1..NT(net) |-> FALSE],
        conflict_groups_sets |->
            [g \in 1..Len(sets) |-> set_iter(sets[g], order)],
        conflict_groups_types |-> types,
        conflict_groups_mask |-> make_mask(net, sets),
        conflict_group_data |->
            [g \in 1..Len(sets) |-> group_data(net, sets[g], types[g], numpy)],
        conflict_groups_waiting |-> [g \in 1..Len(sets) |-> 0],
        enabled |-> [ti \in 1..NT(net) |-> FALSE],
        ended |-> FALSE,
        step_num |-> 0,
        time |-> 0,
        fired |-> <<>>,
        fired_phase2 |-> <<>>,
        call |-> "__init__",
        trace |-> <<>>]

\* one entry of trace
Event(op, cgi, t, delay, before, after) ==
    [op |-> op, cgi |-> cgi, t |-> t, delay |-> delay,
     before |-> before, after |-> after]

(***************************************************************************)
(* PetriNet.reset.                                                         *)
(***************************************************************************)
\* variant of reset: the transitions are not reset
reset_without_transitions(net, s) ==
    [s EXCEPT !.ended = FALSE,
              !.step_num = 0,
              !.time = 0,
              !.fired = <<>>,
              !.conflict_groups_waiting =
                  [g \in DOMAIN s.conflict_groups_waiting |-> 0],
              !.tokens = Place_reset(net),
              !.raised = "",
              !.call = "reset()",
              !.trace = <<>>]

reset(net, s) ==
    [s EXCEPT !.ended = FALSE,
              !.step_num = 0,
              !.time = 0,
              !.fired = <<>>,
              !.conflict_groups_waiting =
                  [g \in DOMAIN s.conflict_groups_waiting |-> 0],
              !.is_waiting = Transition_reset(net),
              !.tokens = Place_reset(net),
              !.raised = "",
              !.call = "reset()",
              !.trace = <<>>]

(***************************************************************************)
(* PetriNet.clone.  An entry of the list arcs is an Arc or Inhibitor       *)
(* object or a tuple (source, target, n_tokens, name), held here as a      *)
(* record of class "tuple".                                                *)
(***************************************************************************)
\* Place.clone(prefix), Transition.clone(prefix): a copy under the new name
Place_clone(p, prefix) == [p EXCEPT !.name = prefix \o p.name]

Transition_clone(t, prefix) == [t EXCEPT !.name = prefix \o t.name]

\* variant of clone_arc: every arc is appended as a tuple
clone_arc_as_tuple(a, prefix) ==
    [name |-> prefix \o a.name, class |-> "tuple",
     source |-> prefix \o a.source, target |-> prefix \o a.target,
     n_tokens |-> a.n_tokens]

\* the entry appended for arc a: a tuple for an Arc, an Inhibitor object
\* for an Inhibitor
clone_arc(a, prefix) ==
    IF a.class = "Arc"
    THEN [name |-> prefix \o a.name, class |-> "tuple",
          source |-> prefix \o a.source, target |-> prefix \o a.target,
          n_tokens |-> a.n_tokens]
    ELSE Inh(prefix \o a.name, prefix \o a.source, prefix \o a.target,
             a.n_tokens)

\* the lists places, transitions, arcs after clone(prefix, places,
\* transitions, arcs) on the object of net
clone(net, prefix, lists) ==
    [prefix |-> prefix,
     places |-> lists.places
                  \o [i \in 1..NP(net) |-> Place_clone(net.places[i], prefix)],
     transitions |-> lists.transitions
                  \o [i \in 1..NT(net) |->
                         Transition_clone(net.transitions[i], prefix)],
     arcs |-> lists.arcs
                  \o [i \in 1..NA(net) |-> clone_arc(net.arcs[i], prefix)]]

\* the constructor's reading of an entry of arcs: a tuple becomes an Arc
arc_of(a) ==
    IF a.class = "tuple" THEN Ar(a.name, a.source, a.target, a.n_tokens) ELSE a

(***************************************************************************)
(* PetriNet.step: selection of one transition per conflict group.          *)
(***************************************************************************)
\* np.argwhere(flags).flatten(): the indices set in a row of flags
argwhere(flags) == SetToSeq({i \in DOMAIN flags : flags[i]})

\* np.random.choice(idxs) with the raw random value r
random_choice(idxs, r) == idxs[(r % Len(idxs)) + 1]

RECURSIVE first_above(_, _, _, _)
\* the first position k of idxs at which the running sum of p over
\* idxs[1..k], scaled by RandRange, exceeds r times the total
first_above(p, idxs, k, r) ==
    IF k >= Len(idxs) THEN Len(idxs)
    ELSE IF SumOver(p, SubSeq(idxs, 1, k)) * RandRange > r * SumOver(p, idxs)
    THEN k
    ELSE first_above(p, idxs, k + 1, r)

\* variant of weighted_choice: the weights are not looked at
weighted_choice_unweighted(idxs, p, r) == random_choice(idxs, r)

\* np.random.choice(idxs, p=probabilities_norm): the raw value r / RandRange
\* is looked up in the cumulative distribution of the normalized weights
weighted_choice(idxs, p, r) == idxs[first_above(p, idxs, 1, r)]

\* variant of ecg: the group mask is not applied to the enabled flags
ecg_unmasked(s, cgi) == s.enabled

\* enabled_conflict_groups[cgi]: the enabled members of group cgi
ecg(s, cgi) ==
    [ti \in DOMAIN s.enabled |-> s.enabled[ti] /\ s.conflict_groups_mask[cgi][ti]]

\* variant of t_idxs: the enabled members are listed in the iteration
\* order of the group's set of transitions
t_idxs_set_order(s, cgi) ==
    SelectSeq(s.conflict_groups_sets[cgi], LAMBDA t : s.enabled[t])

\* the absolute indices of the enabled transitions of the group
t_idxs(s, cgi) == argwhere(ecg(s, cgi))

\* the enabled members of the maximum priority among the enabled members
ep_idxs(priorities, idxs) ==
    LET ep == [k \in 1..Len(idxs) |-> priorities[idxs[k]]]
    IN argwhere([k \in 1..Len(idxs) |-> ep[k] = Max(Range(ep))])

\* the Timed branch takes a Normal-role member when one is enabled
\* variant of normal_enabled: the row of the Normal members is not applied
normal_enabled_any_role(s, cgi) == ecg(s, cgi)

normal_enabled(s, cgi) ==
    [ti \in DOMAIN s.enabled |->
        ecg(s, cgi)[ti] /\ s.conflict_group_data[cgi][2][ti]]

timed_enabled(s, cgi) ==
    [ti \in DOMAIN s.enabled |->
        ecg(s, cgi)[ti] /\ s.conflict_group_data[cgi][1][ti]]

\* the group draws from the random generator in this step
\* variant of group_selects: a waiting group with an enabled Normal member
\* is processed as well
group_selects_while_waiting(s, cgi) ==
    /\ \E ti \in DOMAIN s.enabled : ecg(s, cgi)[ti]
    /\ s.conflict_groups_types[cgi] = "Timed" =>
           \/ s.conflict_groups_waiting[cgi] <= 0
           \/ \E ti \in DOMAIN s.enabled : normal_enabled(s, cgi)[ti]

group_selects(s, cgi) ==
    /\ \E ti \in DOMAIN s.enabled : ecg(s, cgi)[ti]
    /\ s.conflict_groups_types[cgi] = "Timed" =>
           s.conflict_groups_waiting[cgi] <= 0

\* the group samples a delay in this step
group_samples(s, cgi) ==
    /\ group_selects(s, cgi)
    /\ s.conflict_groups_types[cgi] = "Timed"
    /\ \A ti \in DOMAIN s.enabled : ~normal_enabled(s, cgi)[ti]

\* t_fire_idx of group cgi with the raw random value r; 0 stands for None
select(s, cgi, r) ==
    LET cg_type_ == s.conflict_groups_types[cgi]
    IN CASE cg_type_ = "Normal" -> random_choice(t_idxs(s, cgi), r)
         [] cg_type_ = "Priority" ->
              t_idxs(s, cgi)[random_choice(
                  ep_idxs(s.conflict_group_data[cgi], t_idxs(s, cgi)), r)]
         [] cg_type_ = "Stochastic" ->
              weighted_choice(t_idxs(s, cgi), s.conflict_group_data[cgi], r)
         [] cg_type_ = "Timed" ->
              IF s.conflict_groups_waiting[cgi] <= 0
              THEN IF \E ti \in DOMAIN s.enabled : normal_enabled(s, cgi)[ti]
                   THEN random_choice(argwhere(normal_enabled(s, cgi)), r)
                   ELSE random_choice(argwhere(timed_enabled(s, cgi)), r)
              ELSE 0

\* variant of fire_selected: the transition is counted and logged as fired
\* but fire() is never called on it
fire_selected_not_called(net, run, cgi, t_fire_idx, record_fired) ==
    IF t_fire_idx = 0 THEN run
    ELSE IF Transition_output_possible(net, run.s, t_fire_idx)
    THEN [run EXCEPT
            !.s = [run.s EXCEPT
                     !.fired = IF record_fired
                               THEN Append(@, t_fire_idx) ELSE @,
                     !.trace = Append(@, Event("fire", cgi, t_fire_idx,
                                          0, run.s.tokens, run.s.tokens))],
            !.num_fired = @ + 1]
    ELSE [run EXCEPT
            !.s.trace = Append(@, Event("warning", cgi, t_fire_idx, 0,
                                        run.s.tokens, run.s.tokens))]

\* the part of the loop body after the selection: fire the selected
\* transition if its output is possible, else warn and skip it.  run holds
\* the object s, num_fired and pos, the next unused position of the stream.
fire_selected(net, run, cgi, t_fire_idx, record_fired) ==
    IF t_fire_idx = 0 THEN run
    ELSE IF Transition_output_possible(net, run.s, t_fire_idx)
    THEN LET f == Transition_fire(net, run.s, t_fire_idx)
         IN IF f.raised # "" THEN [run EXCEPT !.s = f]
            ELSE [run EXCEPT
                    !.s = [f EXCEPT
                             !.fired = IF record_fired
                                       THEN Append(@, t_fire_idx) ELSE @,
                             !.trace = Append(@, Event("fire", cgi, t_fire_idx,
                                                  0, run.s.tokens, f.tokens))],
                    !.num_fired = @ + 1]
    ELSE [run EXCEPT
            !.s.trace = Append(@, Event("warning", cgi, t_fire_idx, 0,
                                        run.s.tokens, run.s.tokens))]

\* the body of the loop over the conflict groups, drawing from stream rnd
process_group(net, run, cgi, rnd, record_fired) ==
    LET s == run.s
    IN IF s.raised # "" \/ ~group_selects(s, cgi) THEN run
       ELSE IF /\ s.conflict_groups_types[cgi] = "Stochastic"
               /\ SumOver(s.conflict_group_data[cgi], t_idxs(s, cgi)) = 0
       THEN [run EXCEPT !.s.raised = "ValueError: probabilities contain NaN"]
       ELSE LET t_fire_idx == select(s, cgi, rnd[run.pos])
                samples == group_samples(s, cgi)
                delay == IF samples
                         THEN choose_time(net, t_fire_idx, rnd[run.pos + 1])
                         ELSE 0
                s1 == IF samples
                      THEN [s EXCEPT !.conflict_groups_waiting[cgi] = delay]
                      ELSE s
                s2 == [s1 EXCEPT
                         !.trace = Append(@, Event(IF samples THEN "sample"
                                                   ELSE "select", cgi,
                                                   t_fire_idx, delay,
                                                   s.tokens, s.tokens))]
            IN fire_selected(net,
                   [run EXCEPT !.s = s2,
                               !.pos = @ + (IF samples THEN 2 ELSE 1)],
                   cgi, t_fire_idx, record_fired)

RECURSIVE process_groups(_, _, _, _, _)
\* the loop over the conflict groups cgi, cgi + 1, ...
process_groups(net, run, cgi, rnd, record_fired) ==
    IF cgi > Len(run.s.conflict_groups_types) THEN run
    ELSE process_groups(net,
             process_group(net, run, cgi, rnd, record_fired),
             cgi + 1, rnd, record_fired)

(***************************************************************************)
(* PetriNet.step: the clock advance and the phase-2 firings.               *)
(***************************************************************************)
RECURSIVE fire_waiting(_, _, _)
\* the loop over the groups whose waiting time equals min_time: the first
\* waiting Timed member of each fires its phase 2, or the call raises
fire_waiting(net, s, cgis) ==
    IF cgis = <<>> \/ s.raised # "" THEN s
    ELSE LET cgi == Head(cgis)
             w == {ti \in DOMAIN s.is_waiting :
                      s.conflict_group_data[cgi][1][ti] /\ s.is_waiting[ti]}
             t == Min(w)
         IN IF w = {}
            THEN fire_waiting(net,
                     [s EXCEPT !.conflict_groups_waiting[cgi] = 0], Tail(cgis))
            ELSE IF Transition_output_possible(net, s, t)
            THEN fire_waiting(net,
                     [fire_phase2(net, s, t) EXCEPT
                         !.fired_phase2 = Append(@, t),
                         !.conflict_groups_waiting[cgi] = 0,
                         !.trace = Append(@, Event("phase2", cgi, t, 0, s.tokens,
                                             move_tokens(net, s.tokens, t)))],
                     Tail(cgis))
            ELSE [s EXCEPT !.raised = "phase 2: output not possible"]

\* the branch taken when nothing fired and some group is waiting
advance_time(net, s) ==
    LET waiting == s.conflict_groups_waiting
        min_time == Min({waiting[g] : g \in {h \in DOMAIN waiting : waiting[h] > 0}})
        s1 == [s EXCEPT !.time = @ + min_time,
                        !.trace = Append(@, Event("advance", 0, 0, min_time,
                                                  s.tokens, s.tokens))]
        s2 == fire_waiting(net, s1,
                  argwhere([g \in DOMAIN waiting |-> waiting[g] = min_time]))
    IN IF s2.raised # "" THEN s2
       ELSE [s2 EXCEPT !.conflict_groups_waiting =
                [g \in DOMAIN waiting |->
                    IF s2.conflict_groups_waiting[g] - min_time < 0 THEN 0
                    ELSE s2.conflict_groups_waiting[g] - min_time]]

(***************************************************************************)
(* PetriNet.step.                                                          *)
(***************************************************************************)
\* the start of step(): clear the logs, evaluate every transition
\* variant of evaluate: the masked flags are written into the group masks
evaluate_into_mask(net, s, record_fired) ==
    [s EXCEPT !.fired = IF record_fired THEN <<>> ELSE @,
              !.fired_phase2 = IF record_fired THEN <<>> ELSE @,
              !.enabled = [ti \in 1..NT(net) |-> Transition_enabled(net, s, ti)],
              !.conflict_groups_mask =
                  [g \in DOMAIN @ |->
                      [ti \in DOMAIN @[g] |->
                          @[g][ti] /\ Transition_enabled(net, s, ti)]],
              !.raised = "",
              !.call = IF record_fired THEN "step(True)" ELSE "step(False)",
              !.trace = <<>>]

\* variant of evaluate: the places are put back to their initial tokens
\* before the transitions are evaluated
evaluate_resetting_places(net, s, record_fired) ==
    [s EXCEPT !.fired = IF record_fired THEN <<>> ELSE @,
              !.fired_phase2 = IF record_fired THEN <<>> ELSE @,
              !.tokens = Place_reset(net),
              !.enabled = [ti \in 1..NT(net) |->
                              Transition_enabled(net,
                                  [s EXCEPT !.tokens = Place_reset(net)], ti)],
              !.raised = "",
              !.call = IF record_fired THEN "step(True)" ELSE "step(False)",
              !.trace = <<>>]

evaluate(net, s, record_fired) ==
    [s EXCEPT !.fired = IF record_fired THEN <<>> ELSE @,
              !.fired_phase2 = IF record_fired THEN <<>> ELSE @,
              !.enabled = [ti \in 1..NT(net) |-> Transition_enabled(net, s, ti)],
              !.raised = "",
              !.call = IF record_fired THEN "step(True)" ELSE "step(False)",
              !.trace = <<>>]

\* how many raw random values the step started in state s consumes
draws(s) ==
    Cardinality({g \in DOMAIN s.conflict_groups_types : group_selects(s, g)})
    + Cardinality({g \in DOMAIN s.conflict_groups_types : group_samples(s, g)})

\* the streams of raw random values a step in state s can read
Streams(net, s) ==
    [1..draws(evaluate(net, s, TRUE)) -> 0..(RandRange - 1)]

\* variant of must_advance: the firings of the step are not looked at
must_advance_despite_fired(num_waiting, num_fired) == num_waiting > 0

\* the condition of the clock advance
must_advance(num_waiting, num_fired) == num_waiting > 0 /\ num_fired = 0

\* variant of nothing_left: the pending waiting timers are not looked at
nothing_enabled(enabled_any, num_waiting) == ~enabled_any

\* variant of nothing_left: the enabled flags are not looked at
nothing_waiting(enabled_any, num_waiting) == num_waiting = 0

\* the condition under which the step marks the network as ended
nothing_left(enabled_any, num_waiting) == ~enabled_any /\ num_waiting = 0

step(net, s, rnd, record_fired) ==
    LET s0 == evaluate(net, s, record_fired)
        enabled_any == \E ti \in DOMAIN s0.enabled : s0.enabled[ti]
        run == IF enabled_any
               THEN process_groups(net, [s |-> s0, num_fired |-> 0, pos |-> 1],
                                   1, rnd, record_fired)
               ELSE [s |-> s0, num_fired |-> 0, pos |-> 1]
        s1 == run.s
        num_waiting == Cardinality({g \in DOMAIN s1.conflict_groups_waiting :
                                       s1.conflict_groups_waiting[g] > 0})
        s2 == IF s1.raised = "" /\ must_advance(num_waiting, run.num_fired)
              THEN advance_time(net, s1)
              ELSE s1
    IN IF s2.raised # "" THEN s2
       ELSE [s2 EXCEPT !.ended = IF nothing_left(enabled_any, num_waiting)
                                 THEN TRUE ELSE @,
                       !.step_num = @ + 1]

(***************************************************************************)
(* The networks the model constructs.                                      *)
(***************************************************************************)
\* A(1) -> T1 -> B(0)
NetSimple ==
    MkNet(<<Pl("A", 1, Unbounded), Pl("B", 0, Unbounded)>>,
          <<Tn("T1")>>,
          <<Ar("a1", "A", "T1", 1), Ar("a2", "T1", "B", 1)>>)

\* two groups: T1 and T2 compete for the two tokens of A, T3 takes B
NetTwoGroups ==
    MkNet(<<Pl("A", 2, Unbounded), Pl("B", 1, Unbounded), Pl("C", 0, Unbounded)>>,
          <<Tn("T1"), Tn("T2"), Tn("T3")>>,
          <<Ar("a1", "A", "T1", 1), Ar("a2", "T1", "C", 1),
            Ar("a3", "A", "T2", 1), Ar("a4", "T2", "C", 1),
            Ar("a5", "B", "T3", 1), Ar("a6", "T3", "C", 1)>>)

\* weights above 1, a place R that T1 both reads and refills, B holds 2
NetLoop ==
    MkNet(<<Pl("A", 4, Unbounded), Pl("B", 0, 2), Pl("R", 1, Unbounded)>>,
          <<Tn("T1")>>,
          <<Ar("a1", "A", "T1", 2), Ar("a2", "T1", "B", 1),
            Ar("a3", "R", "T1", 1), Ar("a4", "T1", "R", 1)>>)

\* a single Timed transition with the constant delay 2
NetTimed ==
    MkNet(<<Pl("A", 1, Unbounded), Pl("B", 0, Unbounded)>>,
          <<Tt("T2", <<2>>)>>,
          <<Ar("a1", "A", "T2", 1), Ar("a2", "T2", "B", 1)>>)

\* a Priority group: T1 (2), T2 (1) and the Normal T3 compete for A;
\* T1 is inhibited once B holds a token
NetPriority ==
    MkNet(<<Pl("A", 2, Unbounded), Pl("B", 0, Unbounded)>>,
          <<Tp("T1", 2), Tp("T2", 1), Tn("T3")>>,
          <<Ar("a1", "A", "T1", 1), Ar("a2", "A", "T2", 1),
            Ar("a3", "A", "T3", 1), Ar("a4", "T1", "B", 1),
            Inh("i1", "B", "T1", 1)>>)

\* a Priority group with a priority below 0 next to a Normal member
NetNegPriority ==
    MkNet(<<Pl("A", 1, Unbounded), Pl("B", 0, Unbounded), Pl("C", 0, Unbounded)>>,
          <<Tp("T1", -1), Tn("T2")>>,
          <<Ar("a1", "A", "T1", 1), Ar("a2", "A", "T2", 1),
            Ar("a3", "T1", "B", 1), Ar("a4", "T2", "C", 1)>>)

\* a Stochastic group with the weights 1, 1, 2
NetStochastic ==
    MkNet(<<Pl("A", 2, Unbounded), Pl("B", 0, Unbounded)>>,
          <<Ts("T1", 1), Ts("T2", 1), Ts("T3", 2)>>,
          <<Ar("a1", "A", "T1", 1), Ar("a2", "A", "T2", 1),
            Ar("a3", "A", "T3", 1), Ar("a4", "T3", "B", 1)>>)

\* T3 (Timed) needs A and B, T1 shares A with it and T2 shares B with it;
\* T1 is inhibited by C
NetTimedShared ==
    MkNet(<<Pl("A", 1, Unbounded), Pl("B", 1, Unbounded), Pl("C", 1, Unbounded)>>,
          <<Tn("T1"), Tn("T2"), Tt("T3", <<1>>)>>,
          <<Ar("a1", "A", "T1", 1), Inh("i1", "C", "T1", 1),
            Ar("a2", "B", "T2", 1),
            Ar("a3", "A", "T3", 1), Ar("a4", "B", "T3", 1)>>)

\* two groups fill the same place C, which holds one token
NetCapacity ==
    MkNet(<<Pl("A", 1, Unbounded), Pl("B", 1, Unbounded), Pl("C", 0, 1)>>,
          <<Tn("T1"), Tn("T2")>>,
          <<Ar("a1", "A", "T1", 1), Ar("a2", "T1", "C", 1),
            Ar("a3", "B", "T2", 1), Ar("a4", "T2", "C", 1)>>)

\* a Timed group of the Normal T1 and the Timed T2 (delay 0 or 2) on A;
\* T1 is inhibited by C until T3 takes the token of C
NetTimedMixed ==
    MkNet(<<Pl("A", 2, Unbounded), Pl("B", 0, Unbounded), Pl("C", 1, Unbounded)>>,
          <<Tn("T1"), Tt("T2", <<0, 2>>), Tn("T3")>>,
          <<Ar("a1", "A", "T1", 1), Ar("a2", "T1", "B", 1),
            Inh("i1", "C", "T1", 1),
            Ar("a3", "A", "T2", 1), Ar("a4", "T2", "B", 1),
            Ar("a5", "C", "T3", 1)>>)

\* two Timed groups with delays 1 and 1 or 2
NetTwoTimed ==
    MkNet(<<Pl("A", 1, Unbounded), Pl("B", 1, Unbounded), Pl("C", 0, Unbounded)>>,
          <<Tt("T1", <<1>>), Tt("T2", <<1, 2>>)>>,
          <<Ar("a1", "A", "T1", 1), Ar("a2", "T1", "C", 1),
            Ar("a3", "B", "T2", 1), Ar("a4", "T2", "C", 1)>>)

\* the Timed T1 and the Normal T2 of another group fill C, which holds one
NetTimedCapacity ==
    MkNet(<<Pl("A", 1, Unbounded), Pl("D", 1, Unbounded), Pl("C", 0, 1)>>,
          <<Tt("T1", <<1>>), Tn("T2")>>,
          <<Ar("a1", "A", "T1", 1), Ar("a2", "T1", "C", 1),
            Ar("a3", "D", "T2", 1), Ar("a4", "T2", "C", 1)>>)

\* a transition without inputs feeding B, which holds two tokens
NetSource ==
    MkNet(<<Pl("B", 0, 2)>>,
          <<Tn("T1")>>,
          <<Ar("a1", "T1", "B", 1)>>)

\* a Timed transition whose output place is full from the start
NetTimedFull ==
    MkNet(<<Pl("A", 1, Unbounded), Pl("C", 1, 1)>>,
          <<Tt("T1", <<2>>)>>,
          <<Ar("a1", "A", "T1", 1), Ar("a2", "T1", "C", 1)>>)

\* a Stochastic group of unequal weights; T3 needs all three tokens of A
NetStochasticPartial ==
    MkNet(<<Pl("A", 3, Unbounded)>>,
          <<Ts("T1", 3), Ts("T2", 1), Ts("T3", 1)>>,
          <<Ar("a1", "A", "T1", 1), Ar("a2", "A", "T2", 1),
            Ar("a3", "A", "T3", 3)>>)

\* T1 fills B, which inhibits T2 of another group
NetInhibitorFilled ==
    MkNet(<<Pl("A", 1, Unbounded), Pl("B", 0, Unbounded), Pl("C", 1, Unbounded),
            Pl("D", 0, Unbounded)>>,
          <<Tn("T1"), Tn("T2")>>,
          <<Ar("a1", "A", "T1", 1), Ar("a2", "T1", "B", 1),
            Ar("a3", "C", "T2", 1), Ar("a4", "T2", "D", 1),
            Inh("i1", "B", "T2", 1)>>)

\* T1 waits while T2 of another group fires twice and feeds the Timed T3;
\* T4, the Normal member of T1's group, is inhibited until D is empty
NetTimedChain ==
    MkNet(<<Pl("A", 1, Unbounded), Pl("B", 0, Unbounded), Pl("D", 2, Unbounded),
            Pl("E", 0, Unbounded), Pl("F", 0, Unbounded)>>,
          <<Tt("T1", <<2>>), Tn("T2"), Tt("T3", <<1>>), Tn("T4")>>,
          <<Ar("a1", "A", "T1", 1), Ar("a2", "T1", "B", 1),
            Ar("a3", "D", "T2", 1), Ar("a4", "T2", "E", 1),
            Ar("a5", "E", "T3", 1), Ar("a6", "T3", "F", 1),
            Ar("a7", "A", "T4", 1), Inh("i1", "D", "T4", 1)>>)

\* a Normal and a Timed member of one group, both enabled from the start
NetTimedPreempt ==
    MkNet(<<Pl("A", 2, Unbounded), Pl("B", 0, Unbounded)>>,
          <<Tn("T1"), Tt("T2", <<1>>)>>,
          <<Ar("a1", "A", "T1", 2), Ar("a2", "T1", "B", 1),
            Ar("a3", "A", "T2", 1), Ar("a4", "T2", "B", 1)>>)

\* a Timed transition whose output place is full, next to a group that fires
NetTimedBlocked ==
    MkNet(<<Pl("A", 1, Unbounded), Pl("C", 1, 1), Pl("D", 1, Unbounded),
            Pl("E", 0, Unbounded)>>,
          <<Tt("T1", <<2>>), Tn("T2")>>,
          <<Ar("a1", "A", "T1", 1), Ar("a2", "T1", "C", 1),
            Ar("a3", "D", "T2", 1), Ar("a4", "T2", "E", 1)>>)

\* two Timed transitions of one group, the first with the delay 0
NetTimedZero ==
    MkNet(<<Pl("A", 2, Unbounded), Pl("B", 0, Unbounded)>>,
          <<Tt("T1", <<0>>), Tt("T2", <<1>>)>>,
          <<Ar("a1", "A", "T1", 1), Ar("a2", "T1", "B", 1),
            Ar("a3", "A", "T2", 1), Ar("a4", "T2", "B", 1)>>)

\* networks the constructor rejects
NetMixed ==
    MkNet(<<Pl("A", 1, Unbounded)>>,
          <<Tp("T1", 1), Tt("T2", <<1>>)>>,
          <<Ar("a1", "A", "T1", 1), Ar("a2", "A", "T2", 1)>>)

NetStochasticInputs ==
    MkNet(<<Pl("A", 1, Unbounded), Pl("B", 1, Unbounded)>>,
          <<Ts("T1", 1), Ts("T2", 1)>>,
          <<Ar("a1", "A", "T1", 1), Ar("a2", "A", "T2", 1),
            Ar("a3", "B", "T2", 1)>>)

NetNameReused ==
    MkNet(<<Pl("A", 1, Unbounded), Pl("B", 0, Unbounded)>>,
          <<Tn("A")>>,
          <<Ar("a1", "B", "A", 1)>>)

NetUnresolved ==
    MkNet(<<Pl("A", 1, Unbounded)>>,
          <<Tn("T1")>>,
          <<Ar("a1", "A", "T1", 1), Ar("a2", "T1", "Z", 1)>>)

\* places only: a network with no transitions
NetNoTransitions ==
    MkNet(<<Pl("A", 1, Unbounded), Pl("B", 0, Unbounded)>>, <<>>, <<>>)

\* the sets of ordinary input places of the generated networks
InputSets == {{"A"}, {"B"}, {"C"}, {"A", "B"}, {"B", "C"}}

\* three Normal transitions over A, B, C with the ordinary input places
\* ins[1], ins[2], ins[3] and no outputs
NetOfInputs(ins) ==
    MkNet(<<Pl("A", 1, Unbounded), Pl("B", 1, Unbounded), Pl("C", 1, Unbounded)>>,
          <<Tn("T1"), Tn("T2"), Tn("T3")>>,
          SelectSeq(<<Ar("a1", "A", "T1", 1), Ar("a2", "B", "T1", 1),
                      Ar("a3", "C", "T1", 1), Ar("a4", "A", "T2", 1),
                      Ar("a5", "B", "T2", 1), Ar("a6", "C", "T2", 1),
                      Ar("a7", "A", "T3", 1), Ar("a8", "B", "T3", 1),
                      Ar("a9", "C", "T3", 1)>>,
                    LAMBDA a : a.source \in
                        ins[CHOOSE i \in 1..3 : a.target = <<"T1", "T2", "T3">>[i]]))

Nets ==
    {NetSimple, NetTwoGroups, NetLoop, NetTimed, NetPriority, NetNegPriority, NetStochastic,
     NetTimedShared, NetCapacity, NetTimedMixed, NetTwoTimed, NetTimedCapacity,
     NetSource, NetTimedFull, NetTimedBlocked, NetStochasticPartial,
     NetInhibitorFilled, NetTimedChain, NetTimedPreempt,
     NetTimedZero, NetMixed, NetStochasticInputs,
     NetNameReused, NetUnresolved}
    \cup {NetOfInputs(ins) : ins \in [1..3 -> InputSets]}

\* the iteration orders of a set of transitions the model explores
Orders(net) ==
    {[ti \in 1..NT(net) |-> ti], [ti \in 1..NT(net) |-> NT(net) + 1 - ti]}

NumPys == {"wraps", "raises"}

(***************************************************************************)
(* State: the construction input, the fields of the PetriNet object, and   *)
(* replay, a second object used to compare two runs.                       *)
(***************************************************************************)
VARIABLES net, constructed, raised, tokens, is_waiting, conflict_groups_sets,
          conflict_groups_types, conflict_groups_mask, conflict_group_data,
          conflict_groups_waiting, enabled, ended, step_num, time, fired,
          fired_phase2, call, trace, replay

vars == <<net, constructed, raised, tokens, is_waiting, conflict_groups_sets,
          conflict_groups_types, conflict_groups_mask, conflict_group_data,
          conflict_groups_waiting, enabled, ended, step_num, time, fired,
          fired_phase2, call, trace, replay>>

\* the PetriNet object held in the variables
Self ==
    [constructed |-> constructed, raised |-> raised, tokens |-> tokens,
     is_waiting |-> is_waiting, conflict_groups_sets |-> conflict_groups_sets,
     conflict_groups_types |-> conflict_groups_types,
     conflict_groups_mask |-> conflict_groups_mask,
     conflict_group_data |-> conflict_group_data,
     conflict_groups_waiting |-> conflict_groups_waiting,
     enabled |-> enabled, ended |-> ended, step_num |-> step_num,
     time |-> time, fired |-> fired, fired_phase2 |-> fired_phase2,
     call |-> call, trace |-> trace]

\* the variables take the fields of the object s
Becomes(s) ==
    /\ constructed' = s.constructed
    /\ raised' = s.raised
    /\ tokens' = s.tokens
    /\ is_waiting' = s.is_waiting
    /\ conflict_groups_sets' = s.conflict_groups_sets
    /\ conflict_groups_types' = s.conflict_groups_types
    /\ conflict_groups_mask' = s.conflict_groups_mask
    /\ conflict_group_data' = s.conflict_group_data
    /\ conflict_groups_waiting' = s.conflict_groups_waiting
    /\ enabled' = s.enabled
    /\ ended' = s.ended
    /\ step_num' = s.step_num
    /\ time' = s.time
    /\ fired' = s.fired
    /\ fired_phase2' = s.fired_phase2
    /\ call' = s.call
    /\ trace' = s.trace

\* a call of step() is explored from the object s
Explored(s) ==
    /\ s.constructed
    /\ s.step_num < MaxSteps
    /\ s.time <= MaxTime
    /\ Len(s.fired_phase2) <= MaxLog

Init ==
    /\ net \in Nets
    /\ \E s \in {PetriNet(net, order, numpy) :
                      order \in Orders(net), numpy \in NumPys} :
          /\ constructed = s.constructed
          /\ raised = s.raised
          /\ tokens = s.tokens
          /\ is_waiting = s.is_waiting
          /\ conflict_groups_sets = s.conflict_groups_sets
          /\ conflict_groups_types = s.conflict_groups_types
          /\ conflict_groups_mask = s.conflict_groups_mask
          /\ conflict_group_data = s.conflict_group_data
          /\ conflict_groups_waiting = s.conflict_groups_waiting
          /\ enabled = s.enabled
          /\ ended = s.ended
          /\ step_num = s.step_num
          /\ time = s.time
          /\ fired = s.fired
          /\ fired_phase2 = s.fired_phase2
          /\ call = s.call
          /\ trace = s.trace
    /\ replay = <<>>

\* step(record_fired) with the random generator producing the stream rnd
Step ==
    /\ Explored(Self)
    /\ \E record_fired \in BOOLEAN, rnd \in Streams(net, Self) :
          \E s \in {step(net, Self, rnd, record_fired)} : Becomes(s)
    /\ UNCHANGED <<net, replay>>

Reset ==
    /\ constructed
    /\ \E s \in {reset(net, Self)} : Becomes(s)
    /\ UNCHANGED <<net, replay>>

Next == Step \/ Reset

Spec == Init /\ [][Next]_vars

(***************************************************************************)
(* Two runs of one network under the same random stream: the variables     *)
(* hold the first object, replay the second.  The two objects are built    *)
(* separately, so their sets of transitions may iterate in different       *)
(* orders.                                                                 *)
(***************************************************************************)
InitReplay ==
    /\ net \in Nets
    /\ \E numpy \in NumPys, o1 \in Orders(net), o2 \in Orders(net) :
          \E s \in {PetriNet(net, o1, numpy)} :
             /\ s.constructed
             /\ constructed = s.constructed
             /\ raised = s.raised
             /\ tokens = s.tokens
             /\ is_waiting = s.is_waiting
             /\ conflict_groups_sets = s.conflict_groups_sets
             /\ conflict_groups_types = s.conflict_groups_types
             /\ conflict_groups_mask = s.conflict_groups_mask
             /\ conflict_group_data = s.conflict_group_data
             /\ conflict_groups_waiting = s.conflict_groups_waiting
             /\ enabled = s.enabled
             /\ ended = s.ended
             /\ step_num = s.step_num
             /\ time = s.time
             /\ fired = s.fired
             /\ fired_phase2 = s.fired_phase2
             /\ call = s.call
             /\ trace = s.trace
             /\ replay = PetriNet(net, o2, numpy)

\* both objects take a step(record_fired) that reads the same stream
StepBoth ==
    /\ Explored(Self)
    /\ \E record_fired \in BOOLEAN, rnd \in Streams(net, Self) :
          /\ \E s \in {step(net, Self, rnd, record_fired)} : Becomes(s)
          /\ replay' = step(net, replay, rnd, record_fired)
    /\ UNCHANGED net

ResetBoth ==
    /\ \E s \in {reset(net, Self)} : Becomes(s)
    /\ replay' = reset(net, replay)
    /\ UNCHANGED net

NextReplay == StepBoth \/ ResetBoth

SpecReplay == InitReplay /\ [][NextReplay]_vars

(***************************************************************************)
(* Two networks in one process.  step() draws from the module-level        *)
(* generator np.random, which belongs to the process and not to a network: *)
(* replay.np_random is what that generator has yet to produce after        *)
(* seeding.  The variables hold the first network; replay.other is the     *)
(* second one, stepped in between.  replay.alone is the first network in a *)
(* process of its own, seeded alike, whose generator replay.alone_np_random*)
(* no other network reads.                                                 *)
(***************************************************************************)
\* the networks that share a process
SharedNets == {NetTwoGroups, NetStochastic}

Seeds == [1..SeedLen -> 0..(RandRange - 1)]

\* the values the generator g hands to a step() of object s, in order
taken(n, s, g) == SubSeq(g, 1, draws(evaluate(n, s, TRUE)))

\* the generator g after that step()
left(n, s, g) == SubSeq(g, draws(evaluate(n, s, TRUE)) + 1, Len(g))

\* the generator g can serve a step() of object s
serves(n, s, g) == draws(evaluate(n, s, TRUE)) <= Len(g)

InitShared ==
    /\ net \in SharedNets
    /\ \E s \in {PetriNet(net, [ti \in 1..NT(net) |-> ti], "wraps")} :
          /\ constructed = s.constructed
          /\ raised = s.raised
          /\ tokens = s.tokens
          /\ is_waiting = s.is_waiting
          /\ conflict_groups_sets = s.conflict_groups_sets
          /\ conflict_groups_types = s.conflict_groups_types
          /\ conflict_groups_mask = s.conflict_groups_mask
          /\ conflict_group_data = s.conflict_group_data
          /\ conflict_groups_waiting = s.conflict_groups_waiting
          /\ enabled = s.enabled
          /\ ended = s.ended
          /\ step_num = s.step_num
          /\ time = s.time
          /\ fired = s.fired
          /\ fired_phase2 = s.fired_phase2
          /\ call = s.call
          /\ trace = s.trace
          /\ \E seed \in Seeds, n2 \in SharedNets :
                replay = [np_random |-> seed,
                          other_net |-> n2,
                          other |-> PetriNet(n2, [ti \in 1..NT(n2) |-> ti], "wraps"),
                          alone |-> s,
                          alone_np_random |-> seed]

\* the first network takes a step(True), in both processes
StepFirst ==
    /\ Explored(Self)
    /\ serves(net, Self, replay.np_random)
    /\ serves(net, replay.alone, replay.alone_np_random)
    /\ \E s \in {step(net, Self, taken(net, Self, replay.np_random), TRUE)} :
          Becomes(s)
    /\ replay' =
          [replay EXCEPT
             !.np_random = left(net, Self, replay.np_random),
             !.alone = step(net, replay.alone,
                            taken(net, replay.alone, replay.alone_np_random),
                            TRUE),
             !.alone_np_random =
                 left(net, replay.alone, replay.alone_np_random)]
    /\ UNCHANGED net

\* the second network takes a step(True) in the process the two share
StepOther ==
    /\ Explored(replay.other)
    /\ serves(replay.other_net, replay.other, replay.np_random)
    /\ replay' =
          [replay EXCEPT
             !.np_random = left(replay.other_net, replay.other, replay.np_random),
             !.other = step(replay.other_net, replay.other,
                            taken(replay.other_net, replay.other,
                                  replay.np_random),
                            TRUE)]
    /\ UNCHANGED <<net, constructed, raised, tokens, is_waiting,
                   conflict_groups_sets, conflict_groups_types,
                   conflict_groups_mask, conflict_group_data,
                   conflict_groups_waiting, enabled, ended, step_num, time,
                   fired, fired_phase2, call, trace>>

NextShared == StepFirst \/ StepOther

SpecShared == InitShared /\ [][NextShared]_vars

(***************************************************************************)
(* Construction alone: the variables hold no object until PetriNet(...) is *)
(* called on one of the inputs below.                                      *)
(***************************************************************************)
Classes ==
    {"Transition", "TransitionPriority", "TransitionStochastic",
     "TransitionTimed"}

\* a transition of class c with the parameters the class takes
OfClass(name, c) ==
    CASE c = "TransitionPriority" -> Tp(name, 1)
      [] c = "TransitionStochastic" -> Ts(name, 1)
      [] c = "TransitionTimed" -> Tt(name, <<1>>)
      [] OTHER -> Tn(name)

\* NetOfInputs(ins) with the transitions of the classes cls[1], cls[2], cls[3]
NetOfClasses(cls, ins) ==
    [NetOfInputs(ins) EXCEPT
        !.transitions = [i \in 1..3 |-> OfClass(<<"T1", "T2", "T3">>[i], cls[i])]]

\* the sets of inhibitor source places of the generated Stochastic networks
InhibitorSets == {{}, {"B"}, {"C"}}

\* two Stochastic transitions over A, B, C with the ordinary input places
\* ins[1], ins[2] and the inhibitor source places inh[1], inh[2]
NetOfStochastic(ins, inh) ==
    MkNet(<<Pl("A", 1, Unbounded), Pl("B", 0, Unbounded), Pl("C", 0, Unbounded)>>,
          <<Ts("T1", 1), Ts("T2", 2)>>,
          SelectSeq(<<Ar("a1", "A", "T1", 1), Ar("a2", "B", "T1", 1),
                      Ar("a3", "C", "T1", 1), Ar("a4", "A", "T2", 1),
                      Ar("a5", "B", "T2", 1), Ar("a6", "C", "T2", 1)>>,
                    LAMBDA a : a.source \in
                        ins[CHOOSE i \in 1..2 : a.target = <<"T1", "T2">>[i]])
          \o SelectSeq(<<Inh("i1", "B", "T1", 1), Inh("i2", "C", "T1", 1),
                         Inh("i3", "B", "T2", 1), Inh("i4", "C", "T2", 1)>>,
                       LAMBDA a : a.source \in
                           inh[CHOOSE i \in 1..2 : a.target = <<"T1", "T2">>[i]]))

NameSet == {"A", "B", "T1", "a1", "a2"}

\* two places, one transition and two arcs from the first place to the
\* transition, named nm[1] .. nm[5] in that order
NetOfNames(nm) ==
    MkNet(<<Pl(nm[1], 1, Unbounded), Pl(nm[2], 0, Unbounded)>>,
          <<Tn(nm[3])>>,
          <<Ar(nm[4], nm[1], nm[3], 1), Ar(nm[5], nm[1], nm[3], 1)>>)

BuildNets ==
    {NetOfClasses(cls, ins) :
         cls \in [1..3 -> Classes], ins \in [1..3 -> {{"A"}, {"B"}, {"A", "B"}}]}
    \cup {NetOfStochastic(ins, inh) :
             ins \in [1..2 -> {{"A"}, {"A", "B"}}], inh \in [1..2 -> InhibitorSets]}
    \cup {NetOfNames(nm) : nm \in [1..5 -> NameSet]}
    \cup {NetUnresolved, NetNegPriority, NetNoTransitions}

InitBuild ==
    /\ net \in BuildNets
    /\ constructed = FALSE
    /\ raised = ""
    /\ tokens = <<>>
    /\ is_waiting = <<>>
    /\ conflict_groups_sets = <<>>
    /\ conflict_groups_types = <<>>
    /\ conflict_groups_mask = <<>>
    /\ conflict_group_data = <<>>
    /\ conflict_groups_waiting = <<>>
    /\ enabled = <<>>
    /\ ended = FALSE
    /\ step_num = 0
    /\ time = 0
    /\ fired = <<>>
    /\ fired_phase2 = <<>>
    /\ call = ""
    /\ trace = <<>>
    /\ replay = <<>>

\* PetriNet(places, transitions, arcs)
Construct ==
    /\ call = ""
    /\ \E s \in {PetriNet(net, order, numpy) :
                      order \in Orders(net), numpy \in NumPys} : Becomes(s)
    /\ UNCHANGED <<net, replay>>

\* the first step(True) of a constructed object
FirstStep ==
    /\ call = "__init__"
    /\ Explored(Self)
    /\ \E rnd \in Streams(net, Self) :
          \E s \in {step(net, Self, rnd, TRUE)} : Becomes(s)
    /\ UNCHANGED <<net, replay>>

NextBuild == Construct \/ FirstStep

SpecBuild == InitBuild /\ [][NextBuild]_vars

(***************************************************************************)
(* Cloning: replay holds the lists handed to clone(...) and the prefix of  *)
(* the last call; the network is stepped and reset in between.             *)
(***************************************************************************)
CloneNets == {NetPriority, NetTimedShared, NetLoop, NetStochastic}

Prefixes == {"x_", "y_"}

InitClone ==
    /\ net \in CloneNets
    /\ \E s \in {PetriNet(net, [ti \in 1..NT(net) |-> ti], "wraps")} :
          /\ constructed = s.constructed
          /\ raised = s.raised
          /\ tokens = s.tokens
          /\ is_waiting = s.is_waiting
          /\ conflict_groups_sets = s.conflict_groups_sets
          /\ conflict_groups_types = s.conflict_groups_types
          /\ conflict_groups_mask = s.conflict_groups_mask
          /\ conflict_group_data = s.conflict_group_data
          /\ conflict_groups_waiting = s.conflict_groups_waiting
          /\ enabled = s.enabled
          /\ ended = s.ended
          /\ step_num = s.step_num
          /\ time = s.time
          /\ fired = s.fired
          /\ fired_phase2 = s.fired_phase2
          /\ call = s.call
          /\ trace = s.trace
    /\ replay = [prefix |-> "", places |-> <<>>, transitions |-> <<>>,
                 arcs |-> <<>>]

\* clone(prefix, places, transitions, arcs)
Clone ==
    /\ constructed
    /\ Len(replay.places) < MaxClones * NP(net)
    /\ \E prefix \in Prefixes : replay' = clone(net, prefix, replay)
    /\ call' = "clone()"
    /\ trace' = <<>>
    /\ UNCHANGED <<net, constructed, raised, tokens, is_waiting,
                   conflict_groups_sets, conflict_groups_types,
                   conflict_groups_mask, conflict_group_data,
                   conflict_groups_waiting, enabled, ended, step_num, time,
                   fired, fired_phase2>>

NextClone == Clone \/ Step \/ Reset

SpecClone == InitClone /\ [][NextClone]_vars

(***************************************************************************)
(* A caller that calls step() again and again, and never reset().          *)
(***************************************************************************)
\* the networks with a Timed transition
LiveNets ==
    {n \in Nets : \E ti \in 1..NT(n) :
                     n.transitions[ti].class = "TransitionTimed"}

\* replay names the commitment that is followed: the Timed transition t
\* and the number n of calls made when it is looked at
InitLive ==
    /\ net \in LiveNets
    /\ \E s \in {PetriNet(net, order, "wraps") : order \in Orders(net)} :
          /\ constructed = s.constructed
          /\ raised = s.raised
          /\ tokens = s.tokens
          /\ is_waiting = s.is_waiting
          /\ conflict_groups_sets = s.conflict_groups_sets
          /\ conflict_groups_types = s.conflict_groups_types
          /\ conflict_groups_mask = s.conflict_groups_mask
          /\ conflict_group_data = s.conflict_group_data
          /\ conflict_groups_waiting = s.conflict_groups_waiting
          /\ enabled = s.enabled
          /\ ended = s.ended
          /\ step_num = s.step_num
          /\ time = s.time
          /\ fired = s.fired
          /\ fired_phase2 = s.fired_phase2
          /\ call = s.call
          /\ trace = s.trace
    /\ replay \in [t : {ti \in 1..NT(net) :
                          net.transitions[ti].class = "TransitionTimed"},
                    n : 1..(MaxSteps - 1)]

\* the longest delay a Timed transition of the model samples
MaxDelay == 2

\* a call of step() that returns (step_num grows) or advances the clock
Called ==
    /\ Explored(Self)
    /\ \E n \in {step_num, step_num + 1}, c \in time..(time + MaxDelay) :
          step_num' = n /\ time' = c

NextLive == Step

\* the caller does not stop calling step() while the call does something
SpecLive == InitLive /\ [][NextLive]_vars /\ WF_<<step_num, time>>(Called)

(***************************************************************************)
(* Properties.  Helpers first: they read the construction input directly.  *)
(***************************************************************************)
\* the members of conflict group g
Members(g) == Range(conflict_groups_sets[g])

Groups == DOMAIN conflict_groups_sets

\* the positions of trace that hold an event of kind op
EventsOf(op) == {k \in DOMAIN trace : trace[k].op = op}

\* total weight of the ordinary arcs from place p to transition t
InWeight(p, t) ==
    Weight(net, {a \in 1..NA(net) :
                    /\ net.arcs[a].class = "Arc"
                    /\ net.arcs[a].source = net.places[p].name
                    /\ net.arcs[a].target = net.transitions[t].name})

\* total weight of the arcs from transition t to place p
OutWeight(t, p) ==
    Weight(net, {a \in 1..NA(net) :
                    /\ net.arcs[a].source = net.transitions[t].name
                    /\ net.arcs[a].target = net.places[p].name})

WithinCapacity(p, n) ==
    /\ n >= 0
    /\ net.places[p].capacity # Unbounded => n <= net.places[p].capacity

\* transitions t and u share an ordinary input place
SharesInput(t, u) == \E p \in 1..NP(net) : InWeight(p, t) > 0 /\ InWeight(p, u) > 0

RECURSIVE Closure(_)
\* the transitions linked to a member of S by a chain of shared inputs
Closure(S) ==
    LET more == S \cup {u \in 1..NT(net) : \E t \in S : SharesInput(t, u)}
    IN IF more = S THEN S ELSE Closure(more)

\* C1: after construction and after every step() and reset(), every place
\* holds at least 0 tokens and at most its capacity.
C1_TokensWithinCapacity ==
    constructed => \A p \in DOMAIN tokens : WithinCapacity(p, tokens[p])

\* C2: two transitions are in the same conflict group exactly when a chain
\* of shared ordinary input places links them.
C2_GroupsAreComponents ==
    constructed =>
        \A t, u \in 1..NT(net) :
            (\E g \in Groups : {t, u} \subseteq Members(g)) <=> u \in Closure({t})

\* C3: within one step() at most one transition of each conflict group is
\* fired immediately and appended to the fired log.
C3_OneFiringPerGroup ==
    \A g \in Groups :
        /\ Cardinality({k \in DOMAIN fired : fired[k] \in Members(g)}) <= 1
        /\ Cardinality({k \in EventsOf("fire") : trace[k].t \in Members(g)}) <= 1

\* a step in which two groups fired and one of them had two enabled members
C3_Witness ==
    /\ call = "step(True)"
    /\ Len(fired) >= 2
    /\ \E g \in Groups :
          /\ Cardinality({t \in Members(g) : enabled[t]}) >= 2
          /\ \E k \in DOMAIN fired : fired[k] \in Members(g)

AfterStep == call \in {"step(True)", "step(False)"}

\* no transition is enabled and no waiting timer is positive
NothingLeft ==
    /\ \A t \in 1..NT(net) : ~Transition_enabled(net, Self, t)
    /\ \A g \in Groups : conflict_groups_waiting[g] <= 0

\* C5 as claimed: once ended is true, a further step() leaves the tokens,
\* the clock, the waiting timers, the step counter, the ended flag and the
\* fired logs exactly as they were.
C5_StepAfterEndedIsNoOp ==
    [][ended /\ Step =>
          UNCHANGED <<tokens, time, conflict_groups_waiting, step_num, ended,
                      fired, fired_phase2>>]_vars

\* C5 as amended: once ended is true, a further step() leaves the tokens,
\* the clock, the waiting timers and the ended flag as they were; it adds 1
\* to the step counter and, when it records, empties both fired logs.
C5_StepAfterEndedKeepsState ==
    [][ended /\ Step =>
          /\ UNCHANGED <<tokens, time, conflict_groups_waiting, ended>>
          /\ step_num' = step_num + 1
          /\ fired' = IF call' = "step(True)" THEN <<>> ELSE fired
          /\ fired_phase2' = IF call' = "step(True)" THEN <<>> ELSE fired_phase2]_vars

\* the simple network one step() after the step that set ended
C5_Witness ==
    /\ net = NetSimple
    /\ AfterStep
    /\ ended
    /\ step_num = 3

\* the last call was a step() that fired the only enabled transition
FiredOnlyEnabled ==
    /\ AfterStep
    /\ raised = ""
    /\ Cardinality({t \in 1..NT(net) : enabled[t]}) = 1
    /\ \E k \in EventsOf("fire") : enabled[trace[k].t]

\* the values of the example: A(1), B(0), T1: A -> T1 -> B
SimpleNetFired ==
    net = NetSimple =>
        /\ tokens = <<0, 1>>
        /\ call = "step(True)" => fired = <<1>>

\* C6 as claimed: a step() that fires the only enabled transition and
\* leaves no transition enabled and no timer positive ends with ended true
\* (in the example with A = 0, B = 1 and the fired log [T1]).
C6_EndedInSameStep ==
    FiredOnlyEnabled /\ NothingLeft => ended /\ SimpleNetFired

\* C6 as amended: such a step() ends with ended still false (in the example
\* with A = 0, B = 1 and the fired log [T1]); the next step() sets ended.
C6_EndedInNextStep ==
    /\ [](FiredOnlyEnabled /\ NothingLeft => ~ended /\ SimpleNetFired)
    /\ [][FiredOnlyEnabled /\ NothingLeft /\ Step => ended']_vars

\* the example network after its first step()
C6_Witness ==
    /\ net = NetSimple
    /\ FiredOnlyEnabled
    /\ NothingLeft
    /\ call = "step(True)"
    /\ fired = <<1>>

\* C7: a step() that selects a Timed transition for phase 1 moves no tokens
\* for it, leaves the group's waiting timer at the sampled delay and does
\* not advance the clock.
C7_CommitKeepsClock ==
    \A k \in EventsOf("sample") :
        /\ \A j \in EventsOf("fire") :
              trace[j].t = trace[k].t => trace[j].after = trace[j].before
        /\ conflict_groups_waiting[trace[k].cgi] = trace[k].delay
        /\ EventsOf("advance") = {}

\* the last step() committed Timed transition t of group g with delay d
Committed(g, t, d) ==
    /\ AfterStep
    /\ raised = ""
    /\ is_waiting[t]
    /\ \E k \in EventsOf("sample") :
          /\ trace[k].cgi = g /\ trace[k].t = t /\ trace[k].delay = d
          /\ \E j \in EventsOf("fire") : trace[j].t = t

\* C8: after a Timed transition t was committed with a positive delay d,
\* with nothing enabled, no other group waiting and t's output possible,
\* the next step() advances the clock by d, moves t's tokens, records t in
\* fired_phase2 and sets the group's waiting timer to 0.
C8_Phase2AfterCommit ==
    [][\A g \in Groups : \A t \in Members(g) :
          (/\ conflict_groups_waiting[g] > 0
           /\ Committed(g, t, conflict_groups_waiting[g])
           /\ \A u \in 1..NT(net) : ~Transition_enabled(net, Self, u)
           /\ \A h \in Groups \ {g} : conflict_groups_waiting[h] <= 0
           /\ Transition_output_possible(net, Self, t)
           /\ Step)
          => /\ time' = time + conflict_groups_waiting[g]
             /\ tokens' = [p \in 1..NP(net) |->
                              tokens[p] - InWeight(p, t) + OutWeight(t, p)]
             /\ \E k \in DOMAIN fired_phase2' : fired_phase2'[k] = t
             /\ conflict_groups_waiting'[g] = 0]_vars

\* the priority of a member of a Priority group; a Normal member has 0
PriorityOf(t) ==
    IF net.transitions[t].class = "TransitionPriority"
    THEN net.transitions[t].priority
    ELSE 0

\* C9: the transition a Priority group selects is an enabled member whose
\* priority is the maximum priority among the group's enabled members.
C9_SelectedHasMaxPriority ==
    \A k \in EventsOf("select") :
        LET g == trace[k].cgi
            t == trace[k].t
        IN conflict_groups_types[g] = "Priority" =>
              /\ t \in Members(g)
              /\ enabled[t]
              /\ \A u \in Members(g) : enabled[u] => PriorityOf(u) <= PriorityOf(t)

C11_OtherNetworkDoesNotInterfere ==
    /\ replay.alone.fired = fired
    /\ replay.alone.tokens = tokens
    /\ replay.alone.time = time

\* C12: a step() that raises the fatal phase-2 error leaves the clock, the
\* place tokens, the waiting timers and both fired logs as they were before
\* that step.
C12_FailedStepChangesNothing ==
    [][Step /\ raised' = "phase 2: output not possible" =>
          UNCHANGED <<time, tokens, conflict_groups_waiting, fired,
                      fired_phase2>>]_vars

\* C13: when the transition a group selected has output_possible() false,
\* the step() moves no tokens for it, leaves the group's waiting timer as it
\* was, does not advance the clock on its behalf (no timer was positive and
\* nothing fired), and still processes the other groups.
C13_BlockedSelectionChangesNothing ==
    [][Step =>
          \A k \in DOMAIN trace' :
              trace'[k].op = "warning" =>
                LET g == trace'[k].cgi
                IN /\ trace'[k].after = trace'[k].before
                   /\ conflict_groups_waiting'[g] = conflict_groups_waiting[g]
                   /\ ((\A h \in Groups : conflict_groups_waiting[h] <= 0)
                        /\ (\A j \in DOMAIN trace' : trace'[j].op # "fire"))
                       => time' = time
                   /\ \A h \in Groups :
                         (/\ raised' = ""
                          /\ conflict_groups_waiting[h] <= 0
                          /\ \E t \in Members(h) : enabled'[t]) =>
                            \E j \in DOMAIN trace' :
                               /\ trace'[j].cgi = h
                               /\ trace'[j].op \in {"select", "sample"}]_vars

\* C14: after reset(), whatever steps came before, every place holds its
\* initial token count, no Timed transition is waiting, every waiting timer
\* is 0, the clock is 0, the step counter is 0 and ended is false.
C14_ResetRestoresState ==
    call = "reset()" =>
        /\ \A p \in 1..NP(net) : tokens[p] = net.places[p].init_tokens
        /\ \A t \in 1..NT(net) : ~is_waiting[t]
        /\ \A g \in Groups : conflict_groups_waiting[g] = 0
        /\ time = 0
        /\ step_num = 0
        /\ ~ended

\* reset() was called after steps that moved tokens and committed a Timed
\* transition whose phase 2 was fired
C14_Witness ==
    /\ call = "reset()"
    /\ net = NetTwoTimed
    /\ fired_phase2 # <<>>

\* C15: after reset() both fired logs are empty, the log of immediate
\* firings and the log of phase-2 firings.
C15_ResetClearsBothLogs ==
    call = "reset()" => fired = <<>> /\ fired_phase2 = <<>>

\* the variants of the members of group cg
Variants(cg) == {net.transitions[t].class : t \in cg}

\* the type the table gives a group of variants v, "none" for a mixture the
\* table does not list
TypeOfVariants(v) ==
    IF v = {"Transition"} THEN "Normal"
    ELSE IF v \subseteq {"Transition", "TransitionPriority"} THEN "Priority"
    ELSE IF v \subseteq {"Transition", "TransitionTimed"} THEN "Timed"
    ELSE IF v = {"TransitionStochastic"} THEN "Stochastic"
    ELSE "none"

\* the construction input has a group whose mixture the table does not list
HasUnlistedMixture ==
    /\ names_lookup_error(net) = ""
    /\ \E g \in 1..Len(group_sets(net)) :
          TypeOfVariants(Variants(group_sets(net)[g])) = "none"

\* C16: a constructed network has every conflict group typed by the table
\* (all Normal -> Normal; Normal/Priority -> Priority; Normal/Timed ->
\* Timed; all Stochastic -> Stochastic), and construction fails on a group
\* of any other mixture.
C16_GroupTypeByVariants ==
    call = "__init__" =>
        /\ constructed =>
              \A g \in Groups :
                  conflict_groups_types[g] = TypeOfVariants(Variants(Members(g)))
        /\ HasUnlistedMixture => ~constructed
        /\ raised = "error: unsupported combination of transitions"
              => HasUnlistedMixture

\* a constructed network with a Timed group that has a Normal member
C16_Witness ==
    /\ call = "__init__"
    /\ constructed
    /\ \E g \in Groups :
          /\ conflict_groups_types[g] = "Timed"
          /\ Variants(Members(g)) = {"Transition", "TransitionTimed"}

\* the source places of the ordinary input arcs of transition t
OrdinarySources(t) ==
    {net.arcs[a].source : a \in {i \in 1..NA(net) :
                                      /\ net.arcs[i].class = "Arc"
                                      /\ net.arcs[i].target = net.transitions[t].name}}

\* every transition is Stochastic and the names resolve: construction can
\* only fail on the inputs of a Stochastic group
OnlyStochastic ==
    /\ names_lookup_error(net) = ""
    /\ \A t \in 1..NT(net) : net.transitions[t].class = "TransitionStochastic"

\* C17: construction of a network with all-Stochastic groups fails if and
\* only if the members of some group do not all have the same set of
\* ordinary-input source places; inhibitor arcs play no part.
C17_StochasticInputsCheck ==
    (call = "__init__" /\ OnlyStochastic) =>
        (~constructed <=>
            \E g \in 1..Len(group_sets(net)) :
                \E t, u \in group_sets(net)[g] :
                    OrdinarySources(t) # OrdinarySources(u))

\* the names of all places, transitions and arcs, in construction order
EntityNames ==
    [i \in 1..NP(net) |-> net.places[i].name]
    \o [i \in 1..NT(net) |-> net.transitions[i].name]
    \o [i \in 1..NA(net) |-> net.arcs[i].name]

NamesCollide ==
    \E i, j \in DOMAIN EntityNames : i < j /\ EntityNames[i] = EntityNames[j]

\* Normal transitions only, and every arc joins a place and a transition of
\* the network: nothing but the names can make construction fail
OtherwiseWellFormed ==
    /\ \A t \in 1..NT(net) : net.transitions[t].class = "Transition"
    /\ \A a \in 1..NA(net) :
          \/ /\ net.arcs[a].source \in PlaceNames(net)
             /\ net.arcs[a].target \in TransitionNames(net)
          \/ /\ net.arcs[a].source \in TransitionNames(net)
             /\ net.arcs[a].target \in PlaceNames(net)

\* C18: construction fails whenever two of the places, transitions and arcs
\* carry the same name, raises the name error only then, and succeeds on an
\* otherwise well-formed network whose names are pairwise distinct.
C18_NamesUnique ==
    call = "__init__" =>
        /\ NamesCollide => ~constructed
        /\ raised = "name reused" => NamesCollide
        /\ (~NamesCollide /\ OtherwiseWellFormed) => constructed

\* construction was refused for an arc that carries the name of a place
C18_Witness ==
    /\ call = "__init__"
    /\ raised = "name reused"
    /\ \E a \in 1..NA(net) : net.arcs[a].name \in PlaceNames(net)
    /\ \A i, j \in 1..(NP(net) + NT(net)) :
          i < j => EntityNames[i] # EntityNames[j]

\* C19: no step() raises the fatal error of phase 2: whenever the phase-2
\* firing of a committed Timed transition is due, its output is possible.
C19_Phase2AlwaysPossible ==
    raised # "phase 2: output not possible"

\* the enabled members of group g
EnabledMembers(g) == {t \in Members(g) : enabled[t]}

\* the sum of the weights of the transitions of S
WeightOf(S) == SumOver([t \in 1..NT(net) |-> net.transitions[t].probability],
                       SetToSeq(S))

\* the raw values of the generator with which group g selects t
ValuesFor(g, t) == {r \in 0..(RandRange - 1) : select(Self, g, r) = t}

Appended(list, n) == SubSeq(list, n + 1, Len(list))

\* C21: clone(prefix) appends to the given lists a copy of every place,
\* transition and arc of the network with every name prefixed; an arc keeps
\* its kind and weight and joins the prefixed source and target; the
\* entries the lists had stay and the network itself is unchanged.
C21_CloneCopiesWithPrefix ==
    [][Clone =>
          LET pre == replay'.prefix
              ps == Appended(replay'.places, Len(replay.places))
              ts == Appended(replay'.transitions, Len(replay.transitions))
              as == Appended(replay'.arcs, Len(replay.arcs))
          IN /\ SubSeq(replay'.places, 1, Len(replay.places)) = replay.places
             /\ SubSeq(replay'.transitions, 1, Len(replay.transitions))
                   = replay.transitions
             /\ SubSeq(replay'.arcs, 1, Len(replay.arcs)) = replay.arcs
             /\ Len(ps) = NP(net) /\ Len(ts) = NT(net) /\ Len(as) = NA(net)
             /\ \A i \in 1..NP(net) :
                   /\ ps[i].name = pre \o net.places[i].name
                   /\ ps[i].init_tokens = net.places[i].init_tokens
                   /\ ps[i].capacity = net.places[i].capacity
             /\ \A i \in 1..NT(net) :
                   /\ ts[i].name = pre \o net.transitions[i].name
                   /\ ts[i].class = net.transitions[i].class
                   /\ ts[i].priority = net.transitions[i].priority
                   /\ ts[i].probability = net.transitions[i].probability
                   /\ ts[i].times = net.transitions[i].times
             /\ \A i \in 1..NA(net) :
                   /\ arc_of(as[i]).name = pre \o net.arcs[i].name
                   /\ arc_of(as[i]).class = net.arcs[i].class
                   /\ arc_of(as[i]).n_tokens = net.arcs[i].n_tokens
                   /\ arc_of(as[i]).source = pre \o net.arcs[i].source
                   /\ arc_of(as[i]).target = pre \o net.arcs[i].target
             /\ UNCHANGED <<net, tokens, is_waiting, conflict_groups_sets,
                            conflict_groups_types, conflict_groups_mask,
                            conflict_group_data, conflict_groups_waiting,
                            ended, step_num, time, fired, fired_phase2>>]_vars

\* a network with an inhibitor arc, stepped and then cloned twice into the
\* same lists under two prefixes
C21_Witness ==
    /\ call = "clone()"
    /\ step_num > 0
    /\ Len(replay.places) = 2 * NP(net)
    /\ replay.places[1].name # replay.places[NP(net) + 1].name
    /\ \E i \in 1..NA(net) :
          /\ net.arcs[i].class = "Inhibitor"
          /\ replay.arcs[i].class = "Inhibitor"

\* C22: every transition step() fires is enabled and output-possible at the
\* moment fire() is called on it, so no call of fire() breaks its contract.
C22_FiredWhileEnabled ==
    raised # "fire: transition not enabled"

\* C23: ended is true after a step() exactly if it was true before or, at
\* the start of that step, no transition was enabled and no group had a
\* positive waiting timer; once true, ended stays true until reset().
C23_EndedIffNothingLeft ==
    /\ [][Step => (ended' <=> (ended \/ NothingLeft))]_vars
    /\ [][(ended /\ call' # "reset()") => ended']_vars

\* a network with a Timed transition ended by a step() that found nothing
\* enabled and nothing waiting, after the clock had advanced
C23_Witness ==
    /\ AfterStep
    /\ ended
    /\ time > 0
    /\ fired_phase2 = <<>>
    /\ NothingLeft

\* the waiting timer of group g when the step() that led to the primed
\* state had processed its groups: the delay sampled in that step, if any
TimerAfterGroups(g) ==
    IF \E k \in DOMAIN trace' : trace'[k].op = "sample" /\ trace'[k].cgi = g
    THEN LET k == CHOOSE j \in DOMAIN trace' :
                      trace'[j].op = "sample" /\ trace'[j].cgi = g
         IN trace'[k].delay
    ELSE conflict_groups_waiting[g]

\* the positive waiting timers at that moment
PositiveTimers == {w \in {TimerAfterGroups(g) : g \in Groups} : w > 0}

\* the step() was not aborted while it processed its groups
GroupsProcessed == raised' \in {"", "phase 2: output not possible"}

\* C24: the clock changes during a step() if and only if no group fired a
\* transition in that step (a phase-1 commit counts as fired) and some group
\* had a positive waiting timer; it then grows by exactly the least positive
\* waiting timer.
C24_ClockAdvanceRule ==
    [][(Step /\ GroupsProcessed) =>
          LET idle == /\ \A k \in DOMAIN trace' : trace'[k].op # "fire"
                      /\ PositiveTimers # {}
          IN /\ time' # time <=> idle
             /\ idle => time' = time + Min(PositiveTimers)]_vars

\* the clock advanced by the smaller of two different positive timers
C24_Witness ==
    /\ AfterStep
    /\ \E k \in EventsOf("advance") : trace[k].delay = 1
    /\ \E g \in Groups : conflict_groups_waiting[g] = 1
    /\ fired_phase2 # <<>>

\* the step() that led to the primed state advanced the clock by m
AdvancedBy(m) ==
    \E k \in DOMAIN trace' : trace'[k].op = "advance" /\ trace'[k].delay = m

\* C25: after a clock advance by m, a group whose waiting timer w was
\* greater than m has the timer w - m and every other group has the timer
\* 0; no waiting timer is negative in any reachable state.
C25_TimersAfterAdvance ==
    /\ [][Step =>
             \A m \in 1..MaxTime :
                 AdvancedBy(m) =>
                    \A g \in Groups :
                        conflict_groups_waiting'[g] =
                            IF TimerAfterGroups(g) > m
                            THEN TimerAfterGroups(g) - m ELSE 0]_vars
    /\ [](\A g \in Groups : conflict_groups_waiting[g] >= 0)

\* the phase-2 firings of members of group g in the step() that led to the
\* primed state
Phase2Of(g) == {k \in DOMAIN trace' : trace'[k].op = "phase2" /\ trace'[k].cgi = g}

\* C26: in a step() that advances the clock by m, every group whose waiting
\* timer equals m has exactly one member phase-2 fired, a Timed member that
\* was committed before, and no member of another group is phase-2 fired.
C26_Phase2OfMinimumGroups ==
    [][Step =>
          \A m \in 1..MaxTime :
              AdvancedBy(m) =>
                 \A g \in Groups :
                     IF TimerAfterGroups(g) = m
                     THEN /\ Cardinality(Phase2Of(g)) = 1
                          /\ \A k \in Phase2Of(g) :
                                /\ trace'[k].t \in Members(g)
                                /\ is_waiting[trace'[k].t]
                                /\ ~is_waiting'[trace'[k].t]
                     ELSE Phase2Of(g) = {}]_vars

\* member t of a Timed group has the Normal role
NormalRole(t) == net.transitions[t].class = "Transition"

\* C27: when a Timed group whose waiting timer is <= 0 has an enabled
\* Normal-role member, the transition it selects is an enabled Normal-role
\* member, no delay is sampled, its timer stays and none of its Timed
\* members is committed in that step.
C27_NormalPreemptsTimed ==
    [][Step =>
          \A k \in DOMAIN trace' :
              LET g == trace'[k].cgi
              IN (/\ trace'[k].op \in {"select", "sample"}
                  /\ conflict_groups_types[g] = "Timed"
                  /\ \E n \in Members(g) : NormalRole(n) /\ enabled'[n])
                 => /\ trace'[k].op = "select"
                    /\ NormalRole(trace'[k].t)
                    /\ enabled'[trace'[k].t]
                    /\ conflict_groups_waiting'[g] = conflict_groups_waiting[g]
                    /\ \A u \in Members(g) :
                          ~NormalRole(u) => is_waiting'[u] = is_waiting[u]]_vars

\* a Timed group fired its Normal member while its Timed member was enabled
C27_Witness ==
    /\ AfterStep
    /\ \E k \in EventsOf("select") :
          LET g == trace[k].cgi
          IN /\ conflict_groups_types[g] = "Timed"
             /\ \E u \in Members(g) : ~NormalRole(u) /\ enabled[u]
             /\ \E j \in EventsOf("fire") : trace[j].t = trace[k].t

\* C28: while the waiting timer of a group is positive, a step() selects and
\* fires no member of that group and samples no new delay for it.
C28_WaitingGroupYieldsNothing ==
    [][Step =>
          \A g \in Groups :
              conflict_groups_waiting[g] > 0 =>
                  \A k \in DOMAIN trace' :
                      trace'[k].cgi = g =>
                          trace'[k].op \notin {"select", "sample", "fire", "warning"}]_vars

\* a step() passed over a waiting group that had an enabled Normal member
C28_Witness ==
    /\ AfterStep
    /\ raised = ""
    /\ \E g \in Groups :
          /\ conflict_groups_waiting[g] > 0
          /\ \E n \in Members(g) : NormalRole(n) /\ enabled[n]
          /\ \A k \in DOMAIN trace : trace[k].cgi # g

\* the events of kind op that the step() leading to the primed state
\* recorded for group g
EventsFor(g, op) == {k \in DOMAIN trace' : trace'[k].cgi = g /\ trace'[k].op = op}

\* C29: every group that has an enabled member at the evaluation, is not
\* waiting on a timer and whose selected member is not refused for its
\* output fires exactly one transition in that step, whatever the other
\* groups do.
C29_GroupsResolveIndependently ==
    [][Step =>
          \A g \in Groups :
              (/\ \E t \in Members(g) : enabled'[t]
               /\ conflict_groups_waiting[g] <= 0
               /\ EventsFor(g, "warning") = {})
              => Cardinality(EventsFor(g, "fire")) = 1]_vars

\* C30: step() and reset() leave the conflict-group partition, the group
\* types, the membership masks, the per-member group data and the arcs of
\* the network as construction made them.
C30_StructureIsFrozen ==
    [][(Step \/ Reset) =>
          UNCHANGED <<conflict_groups_sets, conflict_groups_types,
                      conflict_groups_mask, conflict_group_data, net>>]_vars

\* a network with a Timed group of several members, reset after steps that
\* committed and phase-2 fired a member
C30_Witness ==
    /\ call = "reset()"
    /\ fired_phase2 # <<>>
    /\ \E g \in Groups :
          /\ conflict_groups_types[g] = "Timed"
          /\ Cardinality(Members(g)) > 1
          /\ \E t \in Members(g) : conflict_groups_mask[g][t]

\* the Timed members of group g that are in the waiting (committed) state
WaitingMembers(g) ==
    {t \in Members(g) : net.transitions[t].class = "TransitionTimed"
                        /\ is_waiting[t]}

\* C31: between calls, whenever the waiting timer of a group is positive,
\* exactly one Timed member of that group is in the waiting (committed)
\* state.
C31_PositiveTimerHasOneWaiting ==
    constructed =>
        \A g \in Groups :
            conflict_groups_waiting[g] > 0 =>
                Cardinality(WaitingMembers(g)) = 1

\* C32: between calls, whenever a Timed transition is in the waiting
\* (committed) state, the waiting timer of its group is positive, the
\* network is not ended and no other member of the group is waiting.
C32_WaitingHasPositiveTimer ==
    constructed =>
        \A g \in Groups : \A t \in WaitingMembers(g) :
            /\ conflict_groups_waiting[g] > 0
            /\ ~ended
            /\ WaitingMembers(g) = {t}

\* the last step() ran the phase 2 of transition t
Phase2Fired(t) ==
    \E k \in EventsOf("phase2") : trace[k].t = t

\* the call number n is passed and the last step() fired some transition
\* immediately (a phase-1 commit included)
FiredAfter(n) ==
    /\ AfterStep
    /\ step_num > n
    /\ EventsOf("fire") # {}

\* the calls and the clock left before the bounds of the exploration are
\* enough for one clock advance per group and for the timer of group g
Room(g) ==
    /\ step_num + Len(conflict_groups_types) <= MaxSteps
    /\ time + conflict_groups_waiting[g] <= MaxTime

\* the Timed transition t is committed after n calls of step()
CommittedAt(t, n) ==
    /\ constructed
    /\ step_num = n
    /\ is_waiting[t]
    /\ \A g \in Groups : t \in Members(g) => Room(g)

C34_AdvanceFiresPhase2 ==
    [][(Step /\ time' > time) =>
          /\ \E k \in DOMAIN trace' : trace'[k].op = "phase2"
          /\ fired_phase2' # <<>>]_vars

\* C35: after a step(), fired and fired_phase2 are not both non-empty.
C35_LogsNotBothFilled ==
    AfterStep => (fired = <<>> \/ fired_phase2 = <<>>)

\* the groups whose membership mask holds transition t
MaskGroups(t) == {g \in DOMAIN conflict_groups_mask : conflict_groups_mask[g][t]}

\* C36: after construction every transition is a member of exactly one
\* conflict group, in the group sets and in the membership mask alike (the
\* rows of the mask are pairwise disjoint and cover the transitions), and a
\* network with no transitions has no groups.
C36_GroupsPartitionTransitions ==
    constructed =>
        /\ DOMAIN conflict_groups_mask = Groups
        /\ \A t \in 1..NT(net) :
              /\ Cardinality({g \in Groups : t \in Members(g)}) = 1
              /\ Cardinality(MaskGroups(t)) = 1
              /\ \A g \in Groups : t \in Members(g) <=> g \in MaskGroups(t)
        /\ \A g \in Groups :
              /\ Members(g) # {}
              /\ Members(g) \subseteq 1..NT(net)
              /\ Len(conflict_groups_sets[g]) = Cardinality(Members(g))
        /\ NT(net) = 0 => Groups = {}

\* a constructed network of several groups in which a transition shares
\* input places with members of two groups
C36_Witness ==
    /\ call = "__init__"
    /\ constructed
    /\ \E g \in Groups : \E h \in Groups \ {g} :
          \E t \in Members(g) :
              /\ \E u \in Members(g) \ {t} : SharesInput(t, u)
              /\ \E u \in Members(h) : SharesInput(t, u)

\* the places that are an input or an output of transition t
Neighbours(t) ==
    {source(net, a) : a \in inputs(net, t)}
    \cup {target(net, a) : a \in outputs(net, t)}

\* the transitions the step() that led to the primed state recorded in
\* fired or in fired_phase2
RecordedInStep ==
    Range(Appended(fired', IF call' = "step(True)" THEN 0 ELSE Len(fired)))
    \cup Range(Appended(fired_phase2',
                        IF call' = "step(True)" THEN 0 ELSE Len(fired_phase2)))

\* the transitions that step() fired, immediately or in phase 2, recorded
\* or not
FiredInStep ==
    {trace'[k].t : k \in {j \in DOMAIN trace' :
                             trace'[j].op \in {"fire", "phase2"}}}

\* C37 as stated: a step() changes the tokens only of places that are an
\* input or an output of a transition recorded as fired or phase-2 fired
\* in that step.
C37_TokensChangeAtRecorded ==
    [][Step =>
          \A p \in 1..NP(net) :
              tokens'[p] # tokens[p] =>
                  \E t \in RecordedInStep : p \in Neighbours(t)]_vars

\* C37 amended: a step() changes the tokens only of places that are an
\* input or an output of a transition it fired immediately or in phase 2,
\* whether the firing was recorded or not; a step() that fires nothing
\* changes no tokens, and with record_fired the fired transitions are the
\* recorded ones.
C37_TokensChangeAtFired ==
    [][Step =>
          /\ \A p \in 1..NP(net) :
                tokens'[p] # tokens[p] =>
                    \E t \in FiredInStep : p \in Neighbours(t)
          /\ FiredInStep = {} => tokens' = tokens
          /\ call' = "step(True)" => RecordedInStep = FiredInStep]_vars

\* a step(record_fired=False) that fired a transition of one group and
\* left the places of another group's transitions alone
C37_Witness ==
    /\ call = "step(False)"
    /\ raised = ""
    /\ \E k \in EventsOf("fire") : trace[k].after # trace[k].before
    /\ \E t \in 1..NT(net) :
          /\ \A k \in DOMAIN trace : trace[k].op \in {"fire", "phase2"}
                                        => trace[k].t # t
          /\ \E p \in Neighbours(t) : tokens[p] > 0

\* C38: the clock never decreases across a step() and is unchanged by every
\* step() in which a transition fired immediately; between calls it
\* decreases only in reset(), which sets it to 0.
C38_ClockMonotone ==
    /\ [][Step =>
             /\ time' >= time
             /\ (\E k \in DOMAIN trace' : trace'[k].op = "fire")
                   => time' = time]_vars
    /\ [][time' < time => (call' = "reset()" /\ time' = 0)]_vars
    /\ [][call' = "reset()" => time' = 0]_vars

\* a step() that fired a transition immediately after the clock had
\* advanced, while another group was waiting on a positive timer
C38_Witness ==
    /\ AfterStep
    /\ raised = ""
    /\ time > 0
    /\ \E g \in Groups :
          /\ conflict_groups_waiting[g] > 0
          /\ \E k \in EventsOf("fire") : trace[k].cgi # g

\* C39: step(record_fired=False) leaves fired and fired_phase2 as they were
\* before the call.
C39_UnrecordedStepKeepsLogs ==
    [][(Step /\ call' = "step(False)") =>
          /\ fired' = fired
          /\ fired_phase2' = fired_phase2]_vars

====
